---- MODULE Spec2Model ----
(***************************************************************************)
(* Model of the drishti water-quality pipeline: the scoring functions of   *)
(* backend/ml.py (anomaly_detection, _pollution_index, predict_risk,       *)
(* simulate_policy), the normalized scorer and forecaster of               *)
(* frontend/app.py (simulation_page), and the frames the request layer of  *)
(* backend/main.py and scripts/test_ml.py build for them.                  *)
(*                                                                         *)
(* Numbers.  A cell of a pandas frame is one of                            *)
(*   [k |-> "num", v |-> n, d |-> m]   the float n / m (m > 0),            *)
(*   [k |-> "nan", ...]    NaN (a null in a float64 column),               *)
(*   [k |-> "none", ...]   None (a null in an all-null, object column).    *)
(* A computed value can also be [k |-> "err", ...]: the TypeError Python   *)
(* raises for arithmetic on None.                                          *)
(* The unnormalized score is kept in hundredths and the                   *)
(* normalized one in 1/6000 (NormUnit), so that every weight and every   *)
(* division of the code is exact.                                          *)
(* Timestamps are integer minutes.                                         *)
(***************************************************************************)
EXTENDS Integers, Sequences, FiniteSets, TLC

VARIABLES
    row,      \* the reading handed to a per-reading scorer
    score,    \* what the scorers returned for it
    window,   \* the frame handed to a core call
    origin,   \* who built the frame
    out,      \* what the core call returned (or raised)
    twin,     \* a second frame, scored beside window
    outTwin,  \* what the core call returned for twin
    db,       \* the backend's tables: sensors, readings, alerts, issues
    procs,    \* the ingest-reading requests in flight
    reply,    \* the request answered last, with its response
    scorer    \* how ingest-reading's scoring step is modelled

vars == <<row, score, window, origin, out, twin, outTwin, db, procs, reply, scorer>>

\* The variables of the core calls, and those of the backend's store.
mlVars == <<row, score, window, origin, out, twin, outTwin>>
storeVars == <<db, procs, reply, scorer>>

\* The tables after init_db() on a new database.
EmptyDb == [sensors |-> {}, readings |-> {}, alerts |-> {}, issues |-> {}]

\* No request answered yet.
NoResponse == [n |-> 0, op |-> "none", status |-> 0]

\* The backend is not part of the run.
StoreIdle ==
    /\ db = EmptyDb
    /\ procs = <<>>
    /\ reply = NoResponse
    /\ scorer = "ml"

----------------------------------------------------------------------------
(* Float arithmetic as Python evaluates it, on exact rationals v / d.      *)

RECURSIVE GCD(_, _)
GCD(a, b) == IF b = 0 THEN a ELSE GCD(b, a % b)

AbsInt(n) == IF n < 0 THEN 0 - n ELSE n

\* The rational n / d (d > 0) in lowest terms.
Q(n, d) ==
    IF d = 1 THEN [k |-> "num", v |-> n, d |-> 1]
    ELSE LET g == GCD(AbsInt(n), d)
         IN  [k |-> "num", v |-> n \div g, d |-> d \div g]

Num(n) == [k |-> "num", v |-> n, d |-> 1]
NaN == [k |-> "nan", v |-> 0, d |-> 1]
None == [k |-> "none", v |-> 0, d |-> 1]
Err == [k |-> "err", v |-> 0, d |-> 1]

IsNum(a) == a.k = "num"
Bad(a, b) == a.k \in {"none", "err"} \/ b.k \in {"none", "err"}

Sub(a, b) ==
    IF Bad(a, b) THEN Err
    ELSE IF a.k = "nan" \/ b.k = "nan" THEN NaN
    ELSE IF a.d = 1 /\ b.d = 1 THEN Num(a.v - b.v)
    ELSE LET g == GCD(a.d, b.d)
         IN  Q(a.v * (b.d \div g) - b.v * (a.d \div g), a.d * (b.d \div g))

Add(a, b) ==
    IF Bad(a, b) THEN Err
    ELSE IF a.k = "nan" \/ b.k = "nan" THEN NaN
    ELSE IF a.d = 1 /\ b.d = 1 THEN Num(a.v + b.v)
    ELSE LET g == GCD(a.d, b.d)
         IN  Q(a.v * (b.d \div g) + b.v * (a.d \div g), a.d * (b.d \div g))

Mul(a, b) ==
    IF Bad(a, b) THEN Err
    ELSE IF a.k = "nan" \/ b.k = "nan" THEN NaN
    ELSE IF a.d = 1 /\ b.d = 1 THEN Num(a.v * b.v)
    ELSE LET g1 == GCD(AbsInt(a.v), b.d)
             g2 == GCD(AbsInt(b.v), a.d)
         IN  Q((a.v \div g1) * (b.v \div g2), (a.d \div g2) * (b.d \div g1))

Abs(a) ==
    IF a.k \in {"none", "err"} THEN Err
    ELSE IF a.k = "nan" THEN NaN
    ELSE [a EXCEPT !.v = AbsInt(a.v)]

\* b > a with Python's float comparison: False when either side is NaN.
Gt(b, a) == IsNum(a) /\ IsNum(b) /\ b.v * a.d > a.v * b.d

\* max(a, b): the first argument, unless the second is greater.
PyMax(a, b) == IF Bad(a, b) THEN Err ELSE IF Gt(b, a) THEN b ELSE a

\* min(a, b): the first argument, unless the second is smaller.
PyMin(a, b) == IF Bad(a, b) THEN Err ELSE IF Gt(a, b) THEN b ELSE a

----------------------------------------------------------------------------
(* Rows: a row is a function from column names to cells; row.get(key, d).  *)

Get(r, key, default) == IF key \in DOMAIN r THEN r[key] ELSE default

----------------------------------------------------------------------------
(* Column names.  The request layer and the smoke test name the channels   *)
(* pH, DO2, BOD, COD, ...; the frontend lower-cases every column name.     *)

Channels == {"pH", "DO2", "BOD", "COD", "turbidity", "ammonia", "temperature", "conductivity"}

Lower(name) ==
    CASE name = "pH" -> "ph"
      [] name = "DO2" -> "do2"
      [] name = "BOD" -> "bod"
      [] name = "COD" -> "cod"
      [] OTHER -> name

Layouts == {"request", "lower"}

\* The column that holds channel c in a frame of the given layout.
ColName(layout, c) == IF layout = "lower" THEN Lower(c) ELSE c

NUMERIC_COLS == {"ph", "do2", "bod", "cod", "turbidity", "ammonia", "temperature", "conductivity"}

----------------------------------------------------------------------------
(* backend/ml.py _pollution_index, in hundredths.                          *)

PollutionIndex(r) ==
    LET s1 == Add(Num(0), Mul(PyMax(Num(0), Abs(Sub(Get(r, "ph", Num(7)), Num(7)))), Num(100)))
        s2 == Add(s1, Mul(PyMax(Num(0), Sub(Num(8), Get(r, "DO2", Num(8)))), Num(150)))
        s3 == Add(s2, Mul(Get(r, "bod", Num(0)), Num(20)))
        s4 == Add(s3, Mul(Get(r, "cod", Num(0)), Num(10)))
        s5 == Add(s4, Mul(Get(r, "turbidity", Num(0)), Num(5)))
        s6 == Add(s5, Mul(Get(r, "ammonia", Num(0)), Num(20)))
    IN  Add(s6, Mul(Get(r, "conductivity", Num(0)), Num(1)))

\* The keys _pollution_index looks up, and the default of each.
IndexKeys == {"ph", "DO2", "bod", "cod", "turbidity", "ammonia", "conductivity"}

----------------------------------------------------------------------------
(* frontend/app.py simulation_page._pollution_index, in 1/6000: x / d is   *)
(* x * (6000 / d) for each divisor 3, 6, 20, 200, 100, 10, 2000 of the     *)
(* code, a fraction of 1.0 is 6000, and the weights are in percent.        *)

NormUnit == 6000

DivBy(x, d) == Mul(x, Num(NormUnit \div d))
One == Num(NormUnit)

PhDev(r) == PyMin(DivBy(Abs(Sub(Get(r, "ph", Num(7)), Num(7))), 3), One)
DoDef(r) == PyMin(PyMax(Num(0), DivBy(Sub(Num(8), Get(r, "do2", Num(8))), 6)), One)
BodN(r) == PyMin(PyMax(DivBy(Get(r, "bod", Num(0)), 20), Num(0)), One)
CodN(r) == PyMin(PyMax(DivBy(Get(r, "cod", Num(0)), 200), Num(0)), One)
TurbN(r) == PyMin(PyMax(DivBy(Get(r, "turbidity", Num(0)), 100), Num(0)), One)
AmmoN(r) == PyMin(PyMax(DivBy(Get(r, "ammonia", Num(0)), 10), Num(0)), One)
CondNUnclamped(r) == DivBy(Get(r, "conductivity", Num(0)), 2000)
CondN(r) == PyMin(PyMax(DivBy(Get(r, "conductivity", Num(0)), 2000), Num(0)), One)

\* The weights 0.15, 0.20, 0.20, 0.15, 0.10, 0.10, 0.10, in percent.
NormWeights == <<15, 20, 20, 15, 10, 10, 10>>

Fractions(r) == <<PhDev(r), DoDef(r), BodN(r), CodN(r), TurbN(r), AmmoN(r), CondN(r)>>

RECURSIVE WeightedSum(_, _, _)
WeightedSum(ws, fs, i) ==
    IF i > Len(ws) THEN Num(0)
    ELSE Add(Mul(Num(ws[i]), fs[i]), WeightedSum(ws, fs, i + 1))

\* score_0_1 * 100.0, then min(max(., 0.0), 100.0).
NormalizedIndex(r) ==
    PyMin(PyMax(WeightedSum(NormWeights, Fractions(r), 1), Num(0)), Num(100 * NormUnit))

NormKeys == {"ph", "do2", "bod", "cod", "turbidity", "ammonia", "conductivity"}

----------------------------------------------------------------------------
(* Readings handed to the per-reading scorers: every combination, over the *)
(* seven channels a scorer reads, of an absent column, a null (NaN in a    *)
(* float column, None in an all-null column) and a low, a middle and a     *)
(* high value.                                                             *)

BigValue == 1000000
MidValue == 5

Absent == [k |-> "absent", v |-> 0, d |-> 1]

ScoreChannels == Channels \ {"temperature"}

CellOptions == {Absent, NaN, None, Num(0 - BigValue), Num(MidValue), Num(BigValue)}

ChannelOf(layout, key) == CHOOSE c \in Channels : ColName(layout, c) = key

MkRow(layout, a) ==
    [key \in {ColName(layout, c) : c \in {x \in DOMAIN a : a[x] # Absent}}
        |-> a[ChannelOf(layout, key)]]

NoScore == [fn |-> "none", value |-> Num(0)]
NoRow == [layout |-> "none", cells |-> <<>>]
NoFrame == [cols |-> {}, rows |-> <<>>]
NoOut == [fn |-> "none", status |-> "none"]

InitScore ==
    /\ \E layout \in Layouts, a \in [ScoreChannels -> CellOptions] :
          row = [layout |-> layout, cells |-> MkRow(layout, a)]
    /\ score = NoScore
    /\ window = NoFrame
    /\ origin = "none"
    /\ out = NoOut
    /\ twin = NoFrame
    /\ outTwin = NoOut
    /\ StoreIdle

\* score = _pollution_index(row), backend/ml.py.
ScoreBackend ==
    /\ row.layout # "none"
    /\ score.fn = "none"
    /\ score' = [fn |-> "ml", value |-> PollutionIndex(row.cells)]
    /\ UNCHANGED <<row, window, origin, out, twin, outTwin>>
    /\ UNCHANGED storeVars

\* score = _pollution_index(row), frontend/app.py simulation_page.
ScoreFrontend ==
    /\ row.layout # "none"
    /\ score.fn = "none"
    /\ score' = [fn |-> "frontend", value |-> NormalizedIndex(row.cells)]
    /\ UNCHANGED <<row, window, origin, out, twin, outTwin>>
    /\ UNCHANGED storeVars

NextScore == ScoreBackend \/ ScoreFrontend

SpecScore == InitScore /\ [][NextScore]_vars

----------------------------------------------------------------------------
(* Stored readings and the frames built from them.  A stored reading is    *)
(* [sensor_id, timestamp, ch], ch giving each channel a number or None     *)
(* (the Optional[float] fields of IngestReading and the nullable columns   *)
(* of Reading).                                                            *)

MinutesPerHour == 60

Typical ==
    [c \in Channels |->
        CASE c = "pH" -> Num(7)
          [] c = "DO2" -> Num(6)
          [] c = "BOD" -> Num(5)
          [] c = "COD" -> Num(50)
          [] c = "turbidity" -> Num(20)
          [] c = "ammonia" -> Num(1)
          [] c = "temperature" -> Num(25)
          [] c = "conductivity" -> Num(300)]

\* The sample readings windows are made of: the smoke test's typical
\* reading, one with zero BOD and ammonia, one whose BOD and DO2 probes
\* reported nothing, one with an out-of-range (negative) BOD, and one of
\* alkaline water free of pollutants.
Catalogue ==
    { Typical,
      [Typical EXCEPT !["BOD"] = Num(0), !["ammonia"] = Num(0)],
      [Typical EXCEPT !["BOD"] = None, !["DO2"] = None],
      [Typical EXCEPT !["BOD"] = Num(0 - 100), !["pH"] = Num(9)],
      [Typical EXCEPT !["pH"] = Num(12), !["BOD"] = Num(0), !["COD"] = Num(0),
                      !["turbidity"] = Num(0), !["ammonia"] = Num(0),
                      !["conductivity"] = Num(0)] }

MaxRows == 2
MaxHour == 5
HalfHour == 30

\* Minutes 0 and 30 of hour 0, the start of hour 1 and the start of the
\* last hour.
Times == {0, HalfHour, MinutesPerHour, MaxHour * MinutesPerHour}

SensorId == 1

StoredReadings == [sensor_id : {SensorId}, timestamp : Times, ch : Catalogue]

SeqsUpTo(S, n) == UNION {[1..k -> S] : k \in 0..n}

Descending(rs) == \A i \in 1..(Len(rs) - 1) : rs[i].timestamp >= rs[i + 1].timestamp
Ascending(rs) == \A i \in 1..(Len(rs) - 1) : rs[i].timestamp <= rs[i + 1].timestamp
Hourly(rs) == \A i \in 1..Len(rs) : rs[i].timestamp = (i - 1) * MinutesPerHour
NoNulls(rs) == \A i \in 1..Len(rs) : \A c \in Channels : rs[i].ch[c] # None

\* pandas.DataFrame(list of dicts): a null becomes NaN in a column that
\* holds a number somewhere, and stays None in a column that is all null.
CellIn(rs, c, i) ==
    IF rs[i].ch[c] # None THEN rs[i].ch[c]
    ELSE IF \A j \in 1..Len(rs) : rs[j].ch[c] = None THEN None
    ELSE NaN

DataFrame(rs, layout, withSensor) ==
    IF rs = <<>> THEN [cols |-> {}, rows |-> <<>>]
    ELSE LET cols == (IF withSensor THEN {"sensor_id"} ELSE {})
                        \cup {"timestamp"} \cup {ColName(layout, c) : c \in Channels}
         IN  [cols |-> cols,
              rows |-> [i \in 1..Len(rs) |->
                          [col \in cols |->
                              CASE col = "sensor_id" -> rs[i].sensor_id
                                [] col = "timestamp" -> rs[i].timestamp
                                [] OTHER -> CellIn(rs, ChannelOf(layout, col), i)]]]

\* Who builds frames, and from which readings:
\*   ingest    main.py ingest_reading: the sensor's rows, latest first;
\*   request   main.py predict_risk and simulate_policy: the same rows
\*             without sensor_id;
\*   smoke     scripts/test_ml.py: hourly rows without nulls, oldest first;
\*   frontend  app.py simulation_page: column names lower-cased, oldest
\*             first, never empty.
Origins == {"ingest", "request", "smoke", "frontend"}

FrameOf(o, rs) ==
    CASE o = "ingest" -> DataFrame(rs, "request", TRUE)
      [] o = "request" -> DataFrame(rs, "request", FALSE)
      [] o = "smoke" -> DataFrame(rs, "request", FALSE)
      [] o = "frontend" -> DataFrame(rs, "lower", TRUE)

Builds(o, rs) ==
    CASE o = "ingest" -> Descending(rs)
      [] o = "request" -> Descending(rs)
      [] o = "smoke" -> rs # <<>> /\ Hourly(rs) /\ NoNulls(rs)
      [] o = "frontend" -> rs # <<>> /\ Ascending(rs)

----------------------------------------------------------------------------
(* backend/ml.py anomaly_detection.  The isolation forest is a seeded,     *)
(* deterministic function of the matrix X alone; which rows it flags is    *)
(* left open, so the flags are any vector of booleans, the same for the    *)
(* same X.                                                                 *)

FillNaIdentity(cell) == cell

\* .fillna(0)
FillNa(cell) == IF cell.k \in {"nan", "none"} THEN Num(0) ELSE cell

\* X = df[NUMERIC_COLS].fillna(0).values
Matrix(df) == [i \in 1..Len(df.rows) |-> [c \in NUMERIC_COLS |-> FillNa(df.rows[i][c])]]

NoSensor == 0 - 1
NoTimestamp == 0 - 1

AlertOf(r) ==
    [sensor_id |-> IF "sensor_id" \in DOMAIN r THEN r["sensor_id"] ELSE NoSensor,
     message |-> "Anomalous reading detected",
     severity |-> "high",
     timestamp |-> IF "timestamp" \in DOMAIN r THEN r["timestamp"] ELSE NoTimestamp]

RECURSIVE AlertsForAll(_, _, _)
AlertsForAll(rows, flags, i) ==
    IF i > Len(rows) THEN <<>>
    ELSE <<AlertOf(rows[i])>> \o AlertsForAll(rows, flags, i + 1)

\* for _, row in df[df["anomaly"]].iterrows(): alerts.append(...)
RECURSIVE AlertsFrom(_, _, _)
AlertsFrom(rows, flags, i) ==
    IF i > Len(rows) THEN <<>>
    ELSE (IF flags[i] THEN <<AlertOf(rows[i])>> ELSE <<>>) \o AlertsFrom(rows, flags, i + 1)

Raised(fn, error) == [fn |-> fn, status |-> error]

Detected(df, flags) ==
    [fn |-> "anomaly_detection", status |-> "ok",
     ret |-> [flags |-> flags, alerts |-> AlertsFrom(df.rows, flags, 1)]]

AnomalyOutcomesNoEmptyCheck(df) ==
    IF ~(NUMERIC_COLS \subseteq df.cols) THEN {Raised("anomaly_detection", "KeyError")}
    ELSE {Detected(df, flags) : flags \in [1..Len(df.rows) -> BOOLEAN]}

\* Every result anomaly_detection(df) can produce.
AnomalyOutcomes(df) ==
    IF df.rows = <<>> THEN {Detected(df, <<>>)}
    ELSE IF ~(NUMERIC_COLS \subseteq df.cols) THEN {Raised("anomaly_detection", "KeyError")}
    ELSE {Detected(df, flags) : flags \in [1..Len(df.rows) -> BOOLEAN]}

----------------------------------------------------------------------------
(* The hourly series and the trend line shared by predict_risk and the     *)
(* frontend's _forecast.                                                   *)

Injective(p) == \A i, j \in DOMAIN p : p[i] = p[j] => i = j

\* df.sort_values("timestamp"): the sort is not stable, so rows with equal
\* timestamps come out in any order.
SortedOrders(rows) ==
    LET n == Len(rows)
        perms == {p \in [1..n -> 1..n] : Injective(p)}
        sorted == {p \in perms : \A i \in 1..(n - 1) :
                                    rows[p[i]]["timestamp"] <= rows[p[i + 1]]["timestamp"]}
    IN  {[i \in 1..n |-> rows[p[i]]] : p \in sorted}

\* The start of the hour a timestamp falls in (timestamps are >= 0).
HourOf(ts) == ts \div MinutesPerHour

RECURSIVE SumNums(_, _)
\* The sum of the numbers among xs[i..], NaN skipped.
SumNums(xs, i) ==
    IF i > Len(xs) THEN Num(0)
    ELSE IF IsNum(xs[i]) THEN Add(xs[i], SumNums(xs, i + 1))
    ELSE SumNums(xs, i + 1)

CountNums(xs) == Cardinality({i \in 1..Len(xs) : IsNum(xs[i])})

\* Series.mean(): the mean of the non-null values, NaN when there is none.
Mean(xs) ==
    IF CountNums(xs) = 0 THEN NaN ELSE Mul(SumNums(xs, 1), Q(1, CountNums(xs)))

RECURSIVE Pick(_, _, _)
\* The values xs[i] at the indices i.. that satisfy keep.
Pick(xs, keep, i) ==
    IF i > Len(xs) THEN <<>>
    ELSE (IF keep[i] THEN <<xs[i]>> ELSE <<>>) \o Pick(xs, keep, i + 1)

\* .resample("1h").mean() of the score column: one value for each hour from
\* the first row's hour to the last row's, NaN for an hour without values.
Resampled(rows, scores) ==
    LET first == HourOf(rows[1]["timestamp"])
        last == HourOf(rows[Len(rows)]["timestamp"])
    IN  [k \in 1..(last - first + 1) |->
            Mean(Pick(scores,
                      [i \in 1..Len(rows) |-> HourOf(rows[i]["timestamp"]) = first + k - 1],
                      1))]

InterpolatedFfill(ys) ==
    [k \in 1..Len(ys) |->
        IF IsNum(ys[k]) THEN ys[k]
        ELSE LET before == {a \in 1..(k - 1) : IsNum(ys[a])}
             IN  IF before = {} THEN NaN
                 ELSE ys[CHOOSE x \in before : \A z \in before : z <= x]]
\* .interpolate(): linear, forward only. A NaN between two values lies on
\* the line between them, a NaN after the last value repeats it, and a NaN
\* before the first value stays.
Interpolated(ys) ==
    [k \in 1..Len(ys) |->
        IF IsNum(ys[k]) THEN ys[k]
        ELSE LET before == {a \in 1..(k - 1) : IsNum(ys[a])}
                 after == {b \in (k + 1)..Len(ys) : IsNum(ys[b])}
             IN  IF before = {} THEN NaN
                 ELSE LET a == CHOOSE x \in before : \A z \in before : z <= x
                      IN  IF after = {} THEN ys[a]
                          ELSE LET b == CHOOSE x \in after : \A z \in after : x <= z
                               IN  Add(ys[a], Mul(Sub(ys[b], ys[a]), Q(k - a, b - a)))]

RECURSIVE SumXY(_, _, _, _)
\* The sum over k >= i of (x_k - xbar) * (y_k - ybar), x_k = k - 1.
SumXY(ys, xbar, ybar, i) ==
    IF i > Len(ys) THEN Num(0)
    ELSE Add(Mul(Sub(Num(i - 1), xbar), Sub(ys[i], ybar)), SumXY(ys, xbar, ybar, i + 1))

FitThroughEnds(ys) ==
    LET n == Len(ys)
        slope == Mul(Sub(ys[n], ys[1]), Q(1, n - 1))
    IN  [slope |-> slope, intercept |-> ys[1]]
\* LinearRegression().fit(t_idx, score): the least-squares line through
\* (0, ys[1]), ..., (n - 1, ys[n]), n >= 2, as [slope, intercept].
Fit(ys) ==
    LET n == Len(ys)
        xbar == Q(n - 1, 2)
        ybar == Mean(ys)
        sxx == Q(n * (n * n - 1), 12)
        slope == Mul(SumXY(ys, xbar, ybar, 1), Q(sxx.d, sxx.v))
    IN  [slope |-> slope, intercept |-> Sub(ybar, Mul(slope, xbar))]

\* model.predict(x)
Predict(line, x) == Add(line.intercept, Mul(line.slope, Num(x)))

\* float(max(pred, 0))
FloorAtZero(pred) == PyMax(pred, Num(0))

----------------------------------------------------------------------------
(* backend/ml.py predict_risk and simulate_policy.  A result is            *)
(* [fn, status, ret, trace]: ret is the value returned, trace the locals   *)
(* of the call (the sorted rows, their scores, the hourly series, the path *)
(* taken), kept so that claims can speak of them.                          *)

Horizon == 24
MinHourly == 2

\* The columns predict_risk aggregates, "score" aside.
PredictCols == {"ph", "do2", "bod", "cod", "turbidity", "ammonia", "temperature", "conductivity"}

\* A column of dtype object: every cell is None.
ObjectCol(rows, c) == \A i \in 1..Len(rows) : rows[i][c] = None

PointsFlatFirst(ts, risk, h) ==
    [i \in 1..h |-> [ts |-> ts + i * MinutesPerHour, risk |-> IF i = 1 THEN risk ELSE Num(0)]]
PointsFlat(ts, risk, h) ==
    [i \in 1..h |-> [ts |-> ts + i * MinutesPerHour, risk |-> risk]]

PointsTrend(rows, hourly, h) ==
    LET lastHour == HourOf(rows[Len(rows)]["timestamp"]) * MinutesPerHour
        lastIdx == Len(hourly) - 1
        line == Fit(hourly)
    IN  [i \in 1..h |->
            [ts |-> lastHour + i * MinutesPerHour,
             risk |-> FloorAtZero(Predict(line, lastIdx + i))]]

Trace(rows, scores, hourly, path) ==
    [rows |-> rows, scores |-> scores, hourly |-> hourly, path |-> path]

\* predict_risk on the rows as sorted, once the scores are computed.
PredictFrom(rows, scores) ==
    LET hourly == Interpolated(Resampled(rows, scores))
        last == Len(rows)
    IN  IF Len(hourly) < MinHourly
        THEN [fn |-> "predict_risk", status |-> "ok",
              ret |-> [next_24h |-> PointsFlat(rows[last]["timestamp"], scores[last], Horizon),
                       baseline |-> scores[last]],
              trace |-> Trace(rows, scores, hourly, "flat")]
        ELSE IF \E k \in 1..Len(hourly) : ~IsNum(hourly[k])
        THEN Raised("predict_risk", "ValueError")
        ELSE [fn |-> "predict_risk", status |-> "ok",
              ret |-> [next_24h |-> PointsTrend(rows, hourly, Horizon),
                       baseline |-> Mean(scores)],
              trace |-> Trace(rows, scores, hourly, "regression")]

PredictSorted(cols, rows) ==
    LET scores == [i \in 1..Len(rows) |-> PollutionIndex(rows[i])]
    IN  IF \E i \in 1..Len(rows) : scores[i].k = "err"
        THEN {Raised("predict_risk", "TypeError")}
        ELSE IF ~(PredictCols \subseteq cols)
        THEN {Raised("predict_risk", "KeyError")}
        ELSE (IF \E c \in PredictCols : ObjectCol(rows, c)
              THEN {Raised("predict_risk", "TypeError")} ELSE {})
             \cup {PredictFrom(rows, scores)}

\* Every result predict_risk(df) can produce: a tie between timestamps is
\* sorted either way, and the mean and interpolation of an all-null
\* (object) column fail or pass with the pandas version.
PredictOutcomes(df) ==
    IF df.rows = <<>>
    THEN {[fn |-> "predict_risk", status |-> "ok",
           ret |-> [next_24h |-> <<>>, baseline |-> Num(0)],
           trace |-> Trace(<<>>, <<>>, <<>>, "empty")]}
    ELSE UNION {PredictSorted(df.cols, rows) : rows \in SortedOrders(df.rows)}

\* The columns a policy scales.
PolicyCols == {"bod", "cod", "turbidity", "ammonia", "conductivity"}

FactorUnclamped(pct) == Sub(Num(1), Q(pct, 100))
\* max(0.0, min(1.0, 1.0 - reduction_pct / 100.0))
Factor(pct) == PyMax(Num(0), PyMin(Num(1), Sub(Num(1), Q(pct, 100))))

\* df[col] = df[col] * factor for the policy columns the frame has.
Reduced(df, factor) ==
    [df EXCEPT !.rows =
        [i \in 1..Len(df.rows) |->
            [col \in df.cols |->
                IF col \in PolicyCols THEN Mul(df.rows[i][col], factor)
                ELSE df.rows[i][col]]]]

\* None * factor raises TypeError.
ReduceFails(df) ==
    \E i \in 1..Len(df.rows) : \E col \in df.cols \cap PolicyCols : df.rows[i][col] = None

\* The copy of the frame that is forecast: scaled, unless the frame is empty
\* or the scaling raises.
Adjusted(df, pct) ==
    IF df.rows = <<>> \/ ReduceFails(df) THEN df ELSE Reduced(df, Factor(pct))

SimulateOutcomes(df, pct) ==
    IF df.rows = <<>>
    THEN {[fn |-> "simulate_policy", status |-> "ok",
           ret |-> [projected_baseline |-> Num(0), projected_next_24h |-> <<>>],
           trace |-> Trace(<<>>, <<>>, <<>>, "empty")]}
    ELSE IF ReduceFails(df) THEN {Raised("simulate_policy", "TypeError")}
    ELSE {[o EXCEPT !.fn = "simulate_policy"] : o \in PredictOutcomes(Reduced(df, Factor(pct)))}

----------------------------------------------------------------------------
(* frontend/app.py simulation_page: _forecast, run on the window and on    *)
(* its reduced copy.                                                       *)

MinHourlyFrontend == 6
HorizonStep == 24
MaxHorizonSteps == 7

\* The slider's horizons: 24 to 168 hours in steps of 24.
Horizons == {HorizonStep * k : k \in 1..MaxHorizonSteps}

\* _forecast on the rows as sorted: (out, mean score, hourly points, flat).
ForecastFrom(rows, scores, h) ==
    LET hourly == Interpolated(Resampled(rows, scores))
        last == Len(rows)
    IN  IF Len(hourly) < MinHourlyFrontend
        THEN [fn |-> "_forecast", status |-> "ok",
              ret |-> [next |-> PointsFlat(rows[last]["timestamp"], scores[last], h),
                       avg |-> Mean(scores), points |-> Len(hourly), flat |-> TRUE],
              trace |-> Trace(rows, scores, hourly, "flat")]
        ELSE IF \E k \in 1..Len(hourly) : ~IsNum(hourly[k])
        THEN Raised("_forecast", "ValueError")
        ELSE [fn |-> "_forecast", status |-> "ok",
              ret |-> [next |-> PointsTrend(rows, hourly, h),
                       avg |-> Mean(scores), points |-> Len(hourly), flat |-> FALSE],
              trace |-> Trace(rows, scores, hourly, "regression")]

ForecastSorted(cols, rows, h) ==
    LET scores == [i \in 1..Len(rows) |-> NormalizedIndex(rows[i])]
    IN  IF \E i \in 1..Len(rows) : scores[i].k = "err"
        THEN {Raised("_forecast", "TypeError")}
        ELSE (IF \E c \in cols \ {"timestamp", "sensor_id"} : ObjectCol(rows, c)
              THEN {Raised("_forecast", "TypeError")} ELSE {})
             \cup {ForecastFrom(rows, scores, h)}

\* Every result _forecast(df_in) can produce for the horizon h.
ForecastOutcomes(df, h) ==
    UNION {ForecastSorted(df.cols, rows, h) : rows \in SortedOrders(df.rows)}

\* What the Simulate button computes: the baseline forecast, then the
\* forecast of the reduced copy. An exception of either ends the run.
PageOutcomes(df, pct, h) ==
    LET bases == ForecastOutcomes(df, h)
        reds == IF ReduceFails(df) THEN {Raised("simulation_page", "TypeError")}
                ELSE ForecastOutcomes(Reduced(df, Factor(pct)), h)
    IN  {IF b.status # "ok" THEN Raised("simulation_page", b.status)
         ELSE IF r.status # "ok" THEN Raised("simulation_page", r.status)
         ELSE [fn |-> "simulation_page", status |-> "ok", base |-> b, reduced |-> r]
         : b \in bases, r \in reds}

----------------------------------------------------------------------------
(* Claims about the per-reading scorers, under SpecScore.                  *)

Scorer(fn, r) == IF fn = "ml" THEN PollutionIndex(r) ELSE NormalizedIndex(r)

\* The documented per-field default of a channel.
DefaultOf(c) == IF c = "pH" THEN 7 ELSE IF c = "DO2" THEN 8 ELSE 0

\* Channel c is missing from the reading: its column is absent, or null.
Missing(layout, r, c) ==
    \/ ColName(layout, c) \notin DOMAIN r
    \/ r[ColName(layout, c)].k \in {"nan", "none"}

\* The reading with channel c set to its default.
WithDefault(layout, r, c) ==
    [key \in DOMAIN r \cup {ColName(layout, c)} |->
        IF key = ColName(layout, c) THEN Num(DefaultOf(c)) ELSE r[key]]

\* C6: the score of a reading with a channel missing (column absent, or
\* present and null) equals the score of the same reading with that
\* channel set to its default (7 for pH, 8 for DO2, 0 otherwise).
C6_MissingIsDefault ==
    score.fn # "none" =>
        \A c \in ScoreChannels :
            Missing(row.layout, row.cells, c) =>
                score.value = Scorer(score.fn, WithDefault(row.layout, row.cells, c))

\* C7: the unnormalized pollution index is non-negative for every reading.
C7_NonNegative ==
    (score.fn = "ml" /\ IsNum(score.value)) => score.value.v >= 0

Finite(r) == \A key \in DOMAIN r : IsNum(r[key])

InUnit(f) == IsNum(f) /\ 0 <= f.v /\ f.v <= NormUnit * f.d

RECURSIVE SumSeq(_, _)
SumSeq(ws, i) == IF i > Len(ws) THEN 0 ELSE ws[i] + SumSeq(ws, i + 1)

\* C9: for a reading with finite channel values the normalized index is
\* within [0, 100]: every channel's badness fraction is within [0, 1] and
\* the weights sum to 1.
C9_NormalizedInRange ==
    (score.fn = "frontend" /\ Finite(row.cells)) =>
        /\ \A i \in 1..Len(NormWeights) : InUnit(Fractions(row.cells)[i])
        /\ SumSeq(NormWeights, 1) = 100
        /\ IsNum(score.value)
        /\ 0 <= score.value.v
        /\ score.value.v <= 100 * NormUnit * score.value.d

\* A reading with an extreme and a negative value was scored, and scored
\* strictly inside the range.
C9_Witness ==
    /\ score.fn = "frontend"
    /\ Finite(row.cells)
    /\ \E key \in DOMAIN row.cells : row.cells[key] = Num(BigValue)
    /\ \E key \in DOMAIN row.cells : row.cells[key] = Num(0 - BigValue)
    /\ 0 < score.value.v
    /\ score.value.v < 100 * NormUnit

----------------------------------------------------------------------------
(* The core calls, each applied to a frame some caller built.              *)

\* reduction_pct values: below, inside and above [0, 100].
Pcts == {0 - 50, 0, 20, 100, 150}

Windows(o) == {rs \in SeqsUpTo(StoredReadings, MaxRows) : Builds(o, rs)}

Init ==
    /\ \E o \in Origins : \E rs \in Windows(o) :
          /\ origin = o
          /\ window = FrameOf(o, rs)
    /\ out = NoOut
    /\ row = NoRow
    /\ score = NoScore
    /\ twin = NoFrame
    /\ outTwin = NoOut
    /\ StoreIdle

\* df2, alerts = ml.anomaly_detection(df)
DetectAnomalies ==
    /\ out.fn = "none"
    /\ out' \in AnomalyOutcomes(window)
    /\ UNCHANGED <<row, score, window, origin, twin, outTwin>>
    /\ UNCHANGED storeVars

\* result = ml.predict_risk(df)
PredictRisk ==
    /\ out.fn = "none"
    /\ out' \in PredictOutcomes(window)
    /\ UNCHANGED <<row, score, window, origin, twin, outTwin>>
    /\ UNCHANGED storeVars

\* res = ml.simulate_policy(df, reduction_pct)
SimulatePolicy ==
    /\ out.fn = "none"
    /\ \E pct \in Pcts : \E o \in SimulateOutcomes(window, pct) :
          out' = o @@ [args |-> [pct |-> pct, adjusted |-> Adjusted(window, pct)]]
    /\ UNCHANGED <<row, score, window, origin, twin, outTwin>>
    /\ UNCHANGED storeVars

\* The Simulate button of the frontend, on a frame the frontend built.
SimulationPage ==
    /\ out.fn = "none"
    /\ origin = "frontend"
    /\ \E pct \in Pcts \cap 0..100, h \in Horizons : \E o \in PageOutcomes(window, pct, h) :
          out' = o @@ [args |-> [pct |-> pct, horizon |-> h, adjusted |-> Adjusted(window, pct)]]
    /\ UNCHANGED <<row, score, window, origin, twin, outTwin>>
    /\ UNCHANGED storeVars

Next == DetectAnomalies \/ PredictRisk \/ SimulatePolicy

Spec == Init /\ [][Next]_vars

InitPage == Init /\ origin = "frontend"

NextPage == SimulationPage

\* Both forecasters, each on the frames it is given.
NextForecast == PredictRisk \/ SimulationPage

SpecForecast == Init /\ [][NextForecast]_vars

\* Windows for the regression path: TrendRows readings with a score, taken
\* at the start of different hours, in a frame both forecasters accept.
TrendRows == 3

TrendTimes == {0, MinutesPerHour, 2 * MinutesPerHour, MaxHour * MinutesPerHour}

TrendWindows ==
    {rs \in [1..TrendRows -> [sensor_id : {SensorId}, timestamp : TrendTimes, ch : Catalogue]] :
        /\ NoNulls(rs)
        /\ \A i \in 1..(TrendRows - 1) : rs[i].timestamp < rs[i + 1].timestamp}

InitTrend ==
    /\ origin = "frontend"
    /\ \E rs \in TrendWindows : window = FrameOf("frontend", rs)
    /\ out = NoOut
    /\ row = NoRow
    /\ score = NoScore
    /\ twin = NoFrame
    /\ outTwin = NoOut
    /\ StoreIdle

SpecTrend == InitTrend /\ [][NextForecast]_vars

SpecPage == InitPage /\ [][NextPage]_vars

----------------------------------------------------------------------------
(* Two windows that differ only in nulls and zeros, scored side by side.   *)

\* The channels of a stored reading that are null or 0.
Flippable(r) == {c \in Channels : r.ch[c] \in {None, Num(0)}}

\* r with null and 0 exchanged in the channels F.
Flip(r, F) ==
    [r EXCEPT !.ch = [c \in Channels |->
        IF c \notin F THEN r.ch[c]
        ELSE IF r.ch[c] = None THEN Num(0) ELSE None]]

\* The windows that differ from rs only in channel values that are null in
\* one and 0 in the other.
TwinWindows(rs) ==
    LET flips == UNION {Flippable(rs[i]) : i \in 1..Len(rs)}
        choices == {Fs \in [1..Len(rs) -> SUBSET flips] :
                        \A i \in 1..Len(rs) : Fs[i] \subseteq Flippable(rs[i])}
    IN  {[i \in 1..Len(rs) |-> Flip(rs[i], Fs[i])] : Fs \in choices}

InitNull ==
    /\ \E o \in Origins : \E rs \in Windows(o) : \E ts \in TwinWindows(rs) :
          /\ origin = o
          /\ window = FrameOf(o, rs)
          /\ twin = FrameOf(o, ts)
    /\ out = NoOut
    /\ outTwin = NoOut
    /\ row = NoRow
    /\ score = NoScore
    /\ StoreIdle

\* anomaly_detection on both windows: the same matrix gets the same flags.
DetectBoth ==
    /\ out.fn = "none"
    /\ \E o1 \in AnomalyOutcomes(window), o2 \in AnomalyOutcomes(twin) :
          /\ (o1.status = "ok" /\ o2.status = "ok" /\ Matrix(window) = Matrix(twin))
                => o1.ret.flags = o2.ret.flags
          /\ out' = o1
          /\ outTwin' = o2
    /\ UNCHANGED <<row, score, window, origin, twin>>
    /\ UNCHANGED storeVars

NextNull == DetectBoth

SpecNull == InitNull /\ [][NextNull]_vars

----------------------------------------------------------------------------
(* Claims about the core calls, under Spec and SpecNull.                   *)

\* The names the request layer and the smoke test give the columns.
PipelineCols == {"timestamp"} \cup Channels

\* C1: every frame the request layer builds holds every column the core
\* looks up (NUMERIC_COLS in anomaly_detection, the aggregated columns of
\* predict_risk, the keys of _pollution_index), and no core call on such a
\* frame fails on a missing column.
C1_NamesConsistent ==
    (origin \in {"ingest", "request"} /\ window.rows # <<>> /\ out.fn # "none") =>
        /\ NUMERIC_COLS \cup PredictCols \cup IndexKeys \subseteq window.cols
        /\ out.status # "KeyError"

\* C2: on a non-empty window carrying the pipeline's channel names,
\* anomaly_detection returns, without error, one flag per input row.
C2_OneFlagPerRow ==
    (out.fn = "anomaly_detection" /\ window.rows # <<>> /\ PipelineCols \subseteq window.cols) =>
        /\ out.status = "ok"
        /\ Len(out.ret.flags) = Len(window.rows)

\* C3: on an empty window none of the calls raises: anomaly_detection
\* returns no flags and no alerts, predict_risk and simulate_policy return
\* no points and baseline 0.
C3_EmptyIsNoError ==
    (window.rows = <<>> /\ out.fn # "none") =>
        /\ out.status = "ok"
        /\ out.fn = "anomaly_detection" =>
              out.ret.flags = <<>> /\ out.ret.alerts = <<>>
        /\ out.fn = "predict_risk" =>
              out.ret.next_24h = <<>> /\ out.ret.baseline = Num(0)
        /\ out.fn = "simulate_policy" =>
              out.ret.projected_next_24h = <<>> /\ out.ret.projected_baseline = Num(0)

\* simulate_policy ran on an empty window.
C3_Witness == window.rows = <<>> /\ origin = "request" /\ out.fn = "simulate_policy"

\* The rows flagged, in input order.
Flagged(flags) == {i \in DOMAIN flags : flags[i]}
RankIn(S, i) == Cardinality({j \in S : j <= i})

\* C4: anomaly_detection returns one alert for each flagged row and none
\* for the others, in row order; each alert has severity "high", the fixed
\* message, and the sensor id and timestamp of its row.
C4_OneAlertPerFlaggedRow ==
    (out.fn = "anomaly_detection" /\ out.status = "ok") =>
        /\ Len(out.ret.alerts) = Cardinality(Flagged(out.ret.flags))
        /\ \A i \in Flagged(out.ret.flags) :
              LET a == out.ret.alerts[RankIn(Flagged(out.ret.flags), i)]
              IN  /\ a.severity = "high"
                  /\ a.message = "Anomalous reading detected"
                  /\ a.timestamp = window.rows[i]["timestamp"]
                  /\ "sensor_id" \in window.cols => a.sensor_id = window.rows[i]["sensor_id"]

\* A window of two rows of which only the second was flagged.
C4_Witness ==
    /\ out.fn = "anomaly_detection"
    /\ out.status = "ok"
    /\ "sensor_id" \in window.cols
    /\ Len(window.rows) = 2
    /\ out.ret.flags = <<FALSE, TRUE>>
    /\ window.rows[1]["timestamp"] # window.rows[2]["timestamp"]

\* C5: two windows that differ only in that some channel values are null in
\* one and 0 in the other get the same flags and the same alerts.
C5_NullIsZero ==
    out.fn = "anomaly_detection" =>
        /\ out.status = outTwin.status
        /\ out.status = "ok" => out.ret = outTwin.ret

\* Two different windows were scored, and a row was flagged.
C5_Witness ==
    /\ out.fn = "anomaly_detection"
    /\ out.status = "ok"
    /\ window # twin
    /\ \E i \in DOMAIN out.ret.flags : out.ret.flags[i]

\* C8: in the scores predict_risk computes, a reading whose DO2 is below 8
\* carries the penalty 1.5 * (8 - DO2), so it scores strictly higher than
\* the same reading with DO2 = 8.
C8_DO2Penalised ==
    (out.fn = "predict_risk" /\ out.status = "ok") =>
        \A i \in 1..Len(out.trace.rows) :
            LET r == out.trace.rows[i]
                at8 == PollutionIndex([r EXCEPT !["do2"] = Num(8)])
            IN  (IsNum(r["do2"]) /\ Gt(Num(8), r["do2"]) /\ IsNum(at8)) =>
                    /\ out.trace.scores[i] = Add(at8, Mul(Num(150), Sub(Num(8), r["do2"])))
                    /\ Gt(out.trace.scores[i], at8)

\* C10: for a non-empty window predict_risk returns 24 points, point i
\* stamped i hours after the last hourly bucket (regression) or after the
\* most recent reading (flat fallback), each later than every reading.
C10_HorizonPoints ==
    (out.fn = "predict_risk" /\ window.rows # <<>>) =>
        /\ out.status = "ok"
        /\ Len(out.ret.next_24h) = Horizon
        /\ LET latest == CHOOSE t \in {window.rows[j]["timestamp"] : j \in 1..Len(window.rows)} :
                            \A j \in 1..Len(window.rows) : window.rows[j]["timestamp"] <= t
               start == IF out.trace.path = "flat" THEN latest
                        ELSE HourOf(latest) * MinutesPerHour
           IN  \A i \in 1..Horizon :
                  /\ out.ret.next_24h[i].ts = start + i * MinutesPerHour
                  /\ out.ret.next_24h[i].ts > latest

----------------------------------------------------------------------------
(* Claims about the forecasters, under Spec, SpecPage and SpecForecast.    *)

Stamps(df) == {df.rows[j]["timestamp"] : j \in 1..Len(df.rows)}

\* The timestamp of the most recent reading, and of the oldest.
LatestOf(df) == CHOOSE t \in Stamps(df) : \A u \in Stamps(df) : u <= t
EarliestOf(df) == CHOOSE t \in Stamps(df) : \A u \in Stamps(df) : t <= u

\* The number of hourly buckets from the oldest reading to the latest.
HourlyPoints(df) == HourOf(LatestOf(df)) - HourOf(EarliestOf(df)) + 1

\* Every point of pts has the score, by scorer fn, of one most recent
\* reading of df.
RepeatsLatest(pts, df, fn) ==
    \E j \in 1..Len(df.rows) :
        /\ df.rows[j]["timestamp"] = LatestOf(df)
        /\ \A i \in 1..Len(pts) : pts[i].risk = Scorer(fn, df.rows[j])

\* C11: when the window spans fewer hourly buckets than the minimum (2 in
\* predict_risk, 6 in _forecast), the forecaster returns horizon points and
\* every one has the score of the most recent reading of the window.
C11_FlatRepeatsLatest ==
    /\ (out.fn = "predict_risk" /\ out.status = "ok" /\ window.rows # <<>>
            /\ HourlyPoints(window) < MinHourly) =>
          /\ Len(out.ret.next_24h) = Horizon
          /\ RepeatsLatest(out.ret.next_24h, window, "ml")
    /\ (out.fn = "simulation_page" /\ out.status = "ok"
            /\ HourlyPoints(window) < MinHourlyFrontend) =>
          /\ Len(out.base.ret.next) = out.args.horizon
          /\ RepeatsLatest(out.base.ret.next, window, "frontend")
          /\ Len(out.reduced.ret.next) = out.args.horizon
          /\ RepeatsLatest(out.reduced.ret.next, out.args.adjusted, "frontend")

\* predict_risk took the fallback on two readings of the same hour, taken at
\* different times, whose scores differ.
C11_Witness ==
    /\ out.fn = "predict_risk"
    /\ out.status = "ok"
    /\ Len(window.rows) = 2
    /\ HourlyPoints(window) < MinHourly
    /\ window.rows[1]["timestamp"] # window.rows[2]["timestamp"]
    /\ PollutionIndex(window.rows[1]) # PollutionIndex(window.rows[2])
    /\ IsNum(out.ret.next_24h[Horizon].risk)

\* C12: a result of the repeat-last-value fallback carries an explicit
\* signal: predict_risk's record has a field besides the points and the
\* baseline that tells it from a regression result, and _forecast's flat
\* element is true exactly on the fallback.
C12_FlatIsFlagged ==
    /\ (out.fn = "predict_risk" /\ out.status = "ok" /\ window.rows # <<>>
            /\ HourlyPoints(window) < MinHourly) =>
          DOMAIN out.ret \ {"next_24h", "baseline"} # {}
    /\ (out.fn = "simulation_page" /\ out.status = "ok") =>
          out.base.ret.flat = (HourlyPoints(window) < MinHourlyFrontend)

\* The scores, by scorer fn, of the readings of df.
ScoresOf(df, fn) == [j \in 1..Len(df.rows) |-> Scorer(fn, df.rows[j])]

AllNums(xs) == \A j \in 1..Len(xs) : IsNum(xs[j])

\* C13: for a non-empty window whose readings all have a score, the
\* baseline returned equals the arithmetic mean of the scores of all the
\* readings, on the regression path and on the fallback alike.
C13_BaselineIsMean ==
    /\ (out.fn = "predict_risk" /\ out.status = "ok" /\ window.rows # <<>>
            /\ AllNums(ScoresOf(window, "ml"))) =>
          out.ret.baseline = Mean(ScoresOf(window, "ml"))
    /\ (out.fn = "simulation_page" /\ out.status = "ok"
            /\ AllNums(ScoresOf(window, "frontend"))) =>
          out.base.ret.avg = Mean(ScoresOf(window, "frontend"))

\* C14: every point predict_risk returns for a non-empty window has a risk
\* that is not negative.
C14_RiskNonNegative ==
    (out.fn = "predict_risk" /\ out.status = "ok") =>
        \A i \in 1..Len(out.ret.next_24h) :
            IsNum(out.ret.next_24h[i].risk) => out.ret.next_24h[i].risk.v >= 0

\* A normalized risk within [0, 100].
InPercent(x) == IsNum(x) /\ 0 <= x.v /\ x.v <= 100 * NormUnit * x.d

\* C15: every point _forecast returns, for the window and for its reduced
\* copy, at every horizon, has a risk within [0, 100].
C15_RiskInPercent ==
    (out.fn = "simulation_page" /\ out.status = "ok"
        /\ AllNums(ScoresOf(window, "frontend"))) =>
        /\ \A i \in 1..Len(out.base.ret.next) : InPercent(out.base.ret.next[i].risk)
        /\ \A i \in 1..Len(out.reduced.ret.next) : InPercent(out.reduced.ret.next[i].risk)

----------------------------------------------------------------------------
(* Claims about simulate_policy, under Spec.                               *)

\* reduction_pct brought into [0, 100].
ClampPct(p) == IF p > 100 THEN 100 ELSE IF p < 0 THEN 0 ELSE p

\* The result of the call, without the record of its arguments.
Returned(o) == [k \in DOMAIN o \ {"args"} |-> o[k]]

\* C16: simulate_policy accepts every reduction_pct: the scaling factor is
\* within [0, 1], and the call with a value above 100 (below 0) has the
\* results of the call with 100 (with 0).
C16_PctIsClamped ==
    out.fn = "simulate_policy" =>
        LET p == out.args.pct
        IN  /\ IsNum(Factor(p))
            /\ 0 <= Factor(p).v
            /\ Factor(p).v <= Factor(p).d
            /\ Returned(out) \in SimulateOutcomes(window, ClampPct(p))
            /\ SimulateOutcomes(window, p) = SimulateOutcomes(window, ClampPct(p))

\* A window with a scaled channel that is not 0 was simulated at a
\* reduction above 100.
C16_Witness ==
    /\ out.fn = "simulate_policy"
    /\ out.status = "ok"
    /\ out.args.pct > 100
    /\ \E i \in 1..Len(window.rows) :
          /\ IsNum(window.rows[i]["bod"])
          /\ window.rows[i]["bod"] # Num(0)
          /\ out.args.adjusted.rows[i]["bod"] = Num(0)

\* The channels a policy scales, by their names in the request layer.
ScaledChannels == {"BOD", "COD", "turbidity", "ammonia", "conductivity"}

\* The column names of the frames of origin o.
LayoutOf(o) == IF o = "frontend" THEN "lower" ELSE "request"

\* C17: the series simulate_policy forecasts has the rows of the window, in
\* order, with every value of BOD, COD, turbidity, ammonia and conductivity
\* multiplied by the factor and pH, DO2, temperature and the timestamps
\* unchanged.
C17_ScalesFiveChannels ==
    (out.fn = "simulate_policy" /\ window.rows # <<>> /\ ~ReduceFails(window)) =>
        LET adj == out.args.adjusted
            f == Factor(out.args.pct)
        IN  /\ adj.cols = window.cols
            /\ Len(adj.rows) = Len(window.rows)
            /\ \A i \in 1..Len(window.rows) :
                  /\ adj.rows[i]["timestamp"] = window.rows[i]["timestamp"]
                  /\ \A c \in Channels :
                        LET key == ColName(LayoutOf(origin), c)
                        IN  adj.rows[i][key] =
                                IF c \in ScaledChannels
                                THEN Mul(window.rows[i][key], f)
                                ELSE window.rows[i][key]

KeysOnEmpty == UNION {DOMAIN o.ret : o \in SimulateOutcomes(NoFrame, 0)}

\* C19: the record simulate_policy returns has the same keys for a
\* non-empty window as for an empty one.
C19_SameKeys ==
    (out.fn = "simulate_policy" /\ out.status = "ok") => DOMAIN out.ret = KeysOnEmpty

\* The baseline of a returned record, whatever the key.
BaselineOf(o) ==
    IF "baseline" \in DOMAIN o.ret THEN o.ret.baseline ELSE o.ret.projected_baseline

\* C20: for a window of readings taken at different times and p1 <= p2 in
\* [0, 100], the baseline simulate_policy returns at p2 is not greater than
\* the baseline it returns at p1.
C20_BaselineMonotone ==
    (out.fn = "simulate_policy" /\ out.status = "ok" /\ out.args.pct \in 0..100
        /\ Cardinality(Stamps(window)) = Len(window.rows)) =>
        \A p1 \in {p \in Pcts : 0 <= p /\ p <= out.args.pct} :
            \A o1 \in SimulateOutcomes(window, p1) :
                (o1.status = "ok" /\ IsNum(BaselineOf(o1)) /\ IsNum(BaselineOf(out))) =>
                    ~Gt(BaselineOf(out), BaselineOf(o1))

----------------------------------------------------------------------------
(* Claims about the regression path and the hourly series.                 *)

\* One reading at the start of each hour, from hour 0 on.
HourlyFrame(df) ==
    /\ Cardinality(Stamps(df)) = Len(df.rows)
    /\ Stamps(df) = {(i - 1) * MinutesPerHour : i \in 1..Len(df.rows)}

\* Every scaled channel of every reading holds a number that is not negative.
NonNegFrame(df) ==
    \A i \in 1..Len(df.rows) : \A c \in df.cols \cap PolicyCols :
        IsNum(df.rows[i][c]) /\ df.rows[i][c].v >= 0

RECURSIVE RiskSum(_, _)
\* The sum of the risks of the points pts[i..].
RiskSum(pts, i) ==
    IF i > Len(pts) THEN Num(0) ELSE Add(pts[i].risk, RiskSum(pts, i + 1))

\* C21: for a window of hourly readings with non-negative pollutant values,
\* simulate_policy at reduction 20 returns 24 points whose mean risk is not
\* greater than the mean risk of the 24 points of predict_risk.
C21_ReducedMeanNotGreater ==
    (out.fn = "simulate_policy" /\ out.status = "ok" /\ out.args.pct = 20
        /\ window.rows # <<>> /\ HourlyFrame(window) /\ NonNegFrame(window)) =>
        /\ Len(out.ret.next_24h) = Horizon
        /\ \A o \in PredictOutcomes(window) :
              /\ o.status = "ok"
              /\ Len(o.ret.next_24h) = Horizon
              /\ ~Gt(RiskSum(out.ret.next_24h, 1), RiskSum(o.ret.next_24h, 1))

\* The rows of df taken in the hour h.
RowsIn(df, h) == {j \in 1..Len(df.rows) : HourOf(df.rows[j]["timestamp"]) = h}

RECURSIVE SumOver(_, _)
\* The sum of xs[j] over the indices j in S.
SumOver(S, xs) ==
    IF S = {} THEN Num(0)
    ELSE LET j == CHOOSE x \in S : TRUE
         IN  Add(xs[j], SumOver(S \ {j}, xs))

\* The mean of the scores of the readings of hour h, which has some.
HourMean(df, fn, h) ==
    Mul(SumOver(RowsIn(df, h), ScoresOf(df, fn)), Q(1, Cardinality(RowsIn(df, h))))

\* What the hourly series of df is to hold for the hour h.
HourValue(df, fn, h) ==
    IF RowsIn(df, h) # {} THEN HourMean(df, fn, h)
    ELSE LET first == HourOf(EarliestOf(df))
             last == HourOf(LatestOf(df))
             a == CHOOSE x \in first..h : RowsIn(df, x) # {}
                        /\ \A z \in (x + 1)..h : RowsIn(df, z) = {}
             b == CHOOSE x \in h..last : RowsIn(df, x) # {}
                        /\ \A z \in h..(x - 1) : RowsIn(df, z) = {}
         IN  Add(HourMean(df, fn, a),
                 Mul(Sub(HourMean(df, fn, b), HourMean(df, fn, a)), Q(h - a, b - a)))

\* hourly is the hourly series of df: one point for each hour from the
\* earliest reading's to the latest's, each with the value of its hour.
IsHourlySeries(hourly, df, fn) ==
    /\ Len(hourly) = HourlyPoints(df)
    /\ \A k \in 1..Len(hourly) :
          hourly[k] = HourValue(df, fn, HourOf(EarliestOf(df)) + k - 1)

SeriesOf(df, fn) ==
    [k \in 1..HourlyPoints(df) |-> HourValue(df, fn, HourOf(EarliestOf(df)) + k - 1)]

RECURSIVE SumIdx(_, _)
\* The sum over k >= i of (k - 1) * ys[k].
SumIdx(ys, i) ==
    IF i > Len(ys) THEN Num(0) ELSE Add(Mul(Num(i - 1), ys[i]), SumIdx(ys, i + 1))

\* The ordinary-least-squares line of ys against the index 0..n-1, by the
\* normal equations, evaluated at x.
OlsAt(ys, x) ==
    LET n == Len(ys)
        sx == (n * (n - 1)) \div 2
        sxx == ((n - 1) * n * (2 * n - 1)) \div 6
        sy == SumOver(1..n, ys)
        sxy == SumIdx(ys, 1)
        m == Mul(Sub(Mul(Num(n), sxy), Mul(Num(sx), sy)), Q(1, n * sxx - sx * sx))
        c == Mul(Sub(sy, Mul(m, Num(sx))), Q(1, n))
    IN  Add(c, Mul(m, Num(x)))

\* ys rises by the same step from each point to the next.
IsLinear(ys) == \A k \in 2..Len(ys) : Sub(ys[k], ys[k - 1]) = Sub(ys[2], ys[1])

\* pts are the points of the regression path for the hourly series ys.
IsTrend(pts, ys) ==
    LET n == Len(ys)
    IN  /\ \A i \in 1..Len(pts) : pts[i].risk = PyMax(OlsAt(ys, n - 1 + i), Num(0))
        /\ IsLinear(ys) =>
              \A i \in 1..Len(pts) :
                  pts[i].risk = PyMax(Add(ys[n], Mul(Sub(ys[2], ys[1]), Num(i))), Num(0))

\* C26: when the hourly series has at least the minimum number of points (2
\* in predict_risk, 6 in _forecast), point i is the value at index n-1+i of
\* the least-squares line of the hourly scores against 0..n-1, floored at 0;
\* for a linear series of slope s and last value v that is max(v + s*i, 0).
C26_RegressionPath ==
    /\ (out.fn = "predict_risk" /\ out.status = "ok" /\ window.rows # <<>>
            /\ AllNums(ScoresOf(window, "ml")) /\ HourlyPoints(window) >= MinHourly) =>
          /\ Len(out.ret.next_24h) = Horizon
          /\ IsTrend(out.ret.next_24h, SeriesOf(window, "ml"))
    /\ (out.fn = "simulation_page" /\ out.status = "ok"
            /\ AllNums(ScoresOf(window, "frontend"))
            /\ HourlyPoints(window) >= MinHourlyFrontend) =>
          /\ Len(out.base.ret.next) = out.args.horizon
          /\ IsTrend(out.base.ret.next, SeriesOf(window, "frontend"))

\* predict_risk extrapolated an hourly series that is not linear, and a
\* point of it is above the floor.
C26_Witness ==
    /\ out.fn = "predict_risk"
    /\ out.status = "ok"
    /\ ~IsLinear(SeriesOf(window, "ml"))
    /\ Gt(out.ret.next_24h[1].risk, Num(0))
    /\ Gt(out.ret.next_24h[1].risk, out.ret.next_24h[Horizon].risk)

----------------------------------------------------------------------------
(* backend/auth.py.  An Authorization header is absent, or present with or *)
(* without the prefix "Bearer " and with a token, "" when nothing follows. *)
(* The identity provider knows the token "good".                           *)

Tokens == {"", "good", "bad"}

NoHeader == [present |-> FALSE, bearer |-> FALSE, token |-> ""]

\* No header, "", "Bearer ", "good", "Bearer good" and "Bearer bad".
Headers ==
    {NoHeader} \cup {h \in [present : {TRUE}, bearer : BOOLEAN, token : Tokens] :
                        h.token = "bad" => h.bearer}

\* The header's value is the empty string.
EmptyHeader(h) == h.present /\ ~h.bearer /\ h.token = ""

\* authorization.split("Bearer ")[-1] if "Bearer " in authorization else
\* authorization
TokenOf(h) == h.token

\* The identity provider: configured and reachable, not configured
\* (SUPABASE_URL or SUPABASE_KEY unset), or configured and unreachable.
Providers == {"up", "unconfigured", "down"}

NoUser == "none"
GoodUser == "user@example.org"

get_user_from_token(token, provider) ==
    IF provider = "unconfigured" \/ token = "" THEN NoUser
    ELSE IF provider = "up" /\ token = "good" THEN GoodUser
    ELSE NoUser

\* The user, None for an anonymous request, or the 401 raised.
get_current_user(h, provider) ==
    IF ~h.present \/ EmptyHeader(h) THEN [status |-> 200, user |-> NoUser]
    ELSE LET user == get_user_from_token(TokenOf(h), provider)
         IN  IF user = NoUser THEN [status |-> 401, user |-> NoUser]
             ELSE [status |-> 200, user |-> user]

----------------------------------------------------------------------------
(* backend/main.py over the tables of backend/models.py.  A reading is     *)
(* [id, sensor_id, timestamp], an alert [id, sensor_id, severity, message, *)
(* timestamp, resolved], an issue [id, status, created_by].  ingest-reading *)
(* commits after each write, so it is a process of several steps that      *)
(* other requests interleave with; the other handlers commit once.         *)

MaxRequests == 3
WindowLimit == 100

\* The ids requests name: 0, which no row has, and the first row's.
Targets == 0..1

SensorIds == {1, 2}

\* A payload without timestamp: the reading is stamped with the clock.
Unstamped == 0 - 1

\* A timestamp older than every stored reading's.
OldTime == Unstamped + 1

PayloadTimes == {Unstamped, OldTime}

\* The earlier readings of a sensor that has reported WindowLimit times, one
\* reading an hour.
BacklogDb ==
    [EmptyDb EXCEPT
        !.sensors = {1},
        !.readings = {[id |-> k, sensor_id |-> 1, timestamp |-> k * MinutesPerHour]
                        : k \in 1..WindowLimit}]

\* datetime.now(timezone.utc): later than every stored reading.
Now(d) == (WindowLimit + 1 + Cardinality(d.readings)) * MinutesPerHour

\* The id the database gives the next row of a table.
NextId(table) == Cardinality(table) + 1

RECURSIVE Orderings(_)
\* Every order of the rows of S.
Orderings(S) ==
    IF S = {} THEN {<<>>}
    ELSE UNION {{<<r>> \o w : w \in Orderings(S \ {r})} : r \in S}

RECURSIVE SortedBetween(_, _, _)
\* order_by(timestamp.desc()) on rows stamped lo..hi: latest first; rows with
\* equal timestamps come in any order.
SortedBetween(S, lo, hi) ==
    IF S = {} THEN {<<>>}
    ELSE IF lo = hi THEN Orderings(S)
    ELSE LET mid == (lo + hi) \div 2
             late == SortedBetween({r \in S : r.timestamp > mid}, mid + 1, hi)
             early == SortedBetween({r \in S : r.timestamp <= mid}, lo, mid)
         IN  {a \o b : a \in late, b \in early}

\* The latest time a stored reading can carry.
LastTime == (WindowLimit + 1 + MaxRequests) * MinutesPerHour

SortedDesc(S) == SortedBetween(S, 0, LastTime)

\* .limit(n): the first n rows.
Newest(S, n) ==
    {SubSeq(w, 1, IF Len(w) < n THEN Len(w) ELSE n) : w \in SortedDesc(S)}

\* The frame ingest_reading builds from the rows of its window.
IngestFrame(rows) ==
    FrameOf("ingest", [i \in 1..Len(rows) |->
        [sensor_id |-> rows[i].sensor_id, timestamp |-> rows[i].timestamp, ch |-> Typical]])

\* ml.anomaly_detection(df) at ingest: as backend/ml.py computes it, or
\* taken as returning the alerts of some flagged subset of the window.
ScoreOutcomes(df) ==
    IF scorer = "ml" THEN AnomalyOutcomes(df)
    ELSE {Detected(df, flags) : flags \in [1..Len(df.rows) -> BOOLEAN]}

NewAlertsResolved(alerts, table) ==
    {[id |-> Cardinality(table) + i,
      sensor_id |-> alerts[i].sensor_id,
      severity |-> alerts[i].severity,
      message |-> alerts[i].message,
      timestamp |-> alerts[i].timestamp,
      resolved |-> TRUE] : i \in 1..Len(alerts)}

\* The rows models.Alert(...) adds for the alerts of a scoring, in order.
NewAlerts(alerts, table) ==
    {[id |-> Cardinality(table) + i,
      sensor_id |-> alerts[i].sensor_id,
      severity |-> alerts[i].severity,
      message |-> alerts[i].message,
      timestamp |-> alerts[i].timestamp,
      resolved |-> FALSE] : i \in 1..Len(alerts)}

\* The requests started so far.
Started == reply.n + Cardinality(DOMAIN procs)

\* procs without the request id.
Without(id) == [k \in DOMAIN procs \ {id} |-> procs[k]]

\* The answer to the ingest-reading request p.
IngestReply(p, status, error, rows) ==
    [n |-> reply.n + 1, op |-> "ingest_reading", status |-> status, error |-> error,
     sensor_id |-> p.sensor_id, created |-> p.created, reading_id |-> p.reading_id,
     window |-> rows]

\* ingest_reading, lines 60-64: the request arrives and looks its sensor up.
IngestBegin ==
    /\ Started < MaxRequests
    /\ \E sid \in SensorIds, ts \in PayloadTimes :
          LET id == CHOOSE k \in 1..MaxRequests : k \notin DOMAIN procs
          IN  procs' = procs @@ (id :> [sensor_id |-> sid, timestamp |-> ts,
                                        pc |-> IF sid \in db.sensors THEN "have_sensor"
                                               ELSE "no_sensor",
                                        created |-> FALSE, reading_id |-> 0])
    /\ UNCHANGED <<db, reply, scorer>>
    /\ UNCHANGED mlVars

\* lines 66-69: the placeholder sensor is inserted and committed; the
\* primary key rejects a second row with the same id.
IngestCreateSensor ==
    /\ \E id \in DOMAIN procs :
          /\ procs[id].pc = "no_sensor"
          /\ IF procs[id].sensor_id \in db.sensors
             THEN /\ reply' = IngestReply(procs[id], 500, "IntegrityError", <<>>)
                  /\ procs' = Without(id)
                  /\ db' = db
             ELSE /\ db' = [db EXCEPT !.sensors = @ \cup {procs[id].sensor_id}]
                  /\ procs' = [procs EXCEPT ![id].pc = "have_sensor", ![id].created = TRUE]
                  /\ reply' = reply
    /\ UNCHANGED scorer
    /\ UNCHANGED mlVars

\* lines 71-85: the reading is inserted and committed.
IngestAddReading ==
    /\ \E id \in DOMAIN procs :
          /\ procs[id].pc = "have_sensor"
          /\ LET rid == NextId(db.readings)
                 ts == IF procs[id].timestamp = Unstamped THEN Now(db)
                       ELSE procs[id].timestamp
             IN  /\ db' = [db EXCEPT !.readings = @ \cup
                              {[id |-> rid, sensor_id |-> procs[id].sensor_id, timestamp |-> ts]}]
                 /\ procs' = [procs EXCEPT ![id].pc = "stored", ![id].reading_id = rid]
    /\ UNCHANGED <<reply, scorer>>
    /\ UNCHANGED mlVars

\* lines 87-114: the sensor's latest readings are scored, the alerts are
\* inserted and committed, and the request is answered; an exception of the
\* scoring ends the request with a 500.
IngestScore ==
    /\ \E id \in DOMAIN procs :
          /\ procs[id].pc = "stored"
          /\ \E rows \in Newest({r \in db.readings : r.sensor_id = procs[id].sensor_id},
                                WindowLimit) :
                \E o \in ScoreOutcomes(IngestFrame(rows)) :
                    IF o.status # "ok"
                    THEN /\ reply' = IngestReply(procs[id], 500, o.status, rows)
                         /\ db' = db
                    ELSE /\ reply' = IngestReply(procs[id], 200, "", rows)
                         /\ db' = [db EXCEPT !.alerts = @ \cup NewAlerts(o.ret.alerts, @)]
          /\ procs' = Without(id)
    /\ UNCHANGED scorer
    /\ UNCHANGED mlVars

\* The answer to a request of the issue and alert handlers.
Reply(op, h, provider, target, status) ==
    [n |-> reply.n + 1, op |-> op, status |-> status, header |-> h,
     provider |-> provider, auth |-> get_current_user(h, provider), target |-> target]

\* create_issue: authentication is optional.
CreateIssue ==
    /\ Started < MaxRequests
    /\ \E h \in Headers, provider \in Providers :
          LET auth == get_current_user(h, provider)
              id == NextId(db.issues)
          IN  IF auth.status = 401
              THEN /\ reply' = Reply("create_issue", h, provider, 0, 401)
                   /\ db' = db
              ELSE /\ db' = [db EXCEPT !.issues = @ \cup
                               {[id |-> id, status |-> "open",
                                 created_by |-> IF auth.user # NoUser THEN auth.user
                                                ELSE "anonymous"]}]
                   /\ reply' = Reply("create_issue", h, provider, id, 200)
    /\ UNCHANGED <<procs, scorer>>
    /\ UNCHANGED mlVars

\* update_issue: the status of an issue is set.
UpdateIssue ==
    /\ Started < MaxRequests
    /\ \E h \in Headers, provider \in Providers, target \in Targets :
          LET auth == get_current_user(h, provider)
              found == {i \in db.issues : i.id = target}
          IN  IF auth.status = 401 \/ auth.user = NoUser
              THEN /\ reply' = Reply("update_issue", h, provider, target, 401)
                   /\ db' = db
              ELSE IF found = {}
              THEN /\ reply' = Reply("update_issue", h, provider, target, 404)
                   /\ db' = db
              ELSE /\ db' = [db EXCEPT !.issues =
                               {IF i.id = target THEN [i EXCEPT !.status = "closed"] ELSE i
                                   : i \in @}]
                   /\ reply' = Reply("update_issue", h, provider, target, 200)
    /\ UNCHANGED <<procs, scorer>>
    /\ UNCHANGED mlVars

ResolveAlertUnchecked ==
    /\ Started < MaxRequests
    /\ \E h \in Headers, provider \in Providers, target \in Targets :
          LET found == {a \in db.alerts : a.id = target}
          IN  IF found = {}
              THEN /\ reply' = Reply("resolve_alert", h, provider, target, 404)
                   /\ db' = db
              ELSE /\ db' = [db EXCEPT !.alerts =
                               {IF a.id = target THEN [a EXCEPT !.resolved = TRUE] ELSE a
                                   : a \in @}]
                   /\ reply' = Reply("resolve_alert", h, provider, target, 200)
    /\ UNCHANGED <<procs, scorer>>
    /\ UNCHANGED mlVars

\* resolve_alert: an alert is marked resolved.
ResolveAlert ==
    /\ Started < MaxRequests
    /\ \E h \in Headers, provider \in Providers, target \in Targets :
          LET auth == get_current_user(h, provider)
              found == {a \in db.alerts : a.id = target}
          IN  IF auth.status = 401 \/ auth.user = NoUser
              THEN /\ reply' = Reply("resolve_alert", h, provider, target, 401)
                   /\ db' = db
              ELSE IF found = {}
              THEN /\ reply' = Reply("resolve_alert", h, provider, target, 404)
                   /\ db' = db
              ELSE /\ db' = [db EXCEPT !.alerts =
                               {IF a.id = target THEN [a EXCEPT !.resolved = TRUE] ELSE a
                                   : a \in @}]
                   /\ reply' = Reply("resolve_alert", h, provider, target, 200)
    /\ UNCHANGED <<procs, scorer>>
    /\ UNCHANGED mlVars

\* The core calls are not part of the run.
CoreIdle ==
    /\ origin = "ingest"
    /\ window = NoFrame
    /\ out = NoOut
    /\ row = NoRow
    /\ score = NoScore
    /\ twin = NoFrame
    /\ outTwin = NoOut

\* The service starts on a new database; the scoring step is ml.py's, or is
\* taken as flagging some subset of its window.
InitBackend ==
    /\ db = EmptyDb
    /\ scorer \in {"ml", "flags"}
    /\ procs = <<>>
    /\ reply = NoResponse
    /\ CoreIdle

\* ingest-reading alone, on a new database or on one that holds a sensor's
\* earlier readings.
InitIngest ==
    /\ db \in {EmptyDb, BacklogDb}
    /\ scorer = "ml"
    /\ procs = <<>>
    /\ reply = NoResponse
    /\ CoreIdle

NextIngest == IngestBegin \/ IngestCreateSensor \/ IngestAddReading \/ IngestScore

SpecIngest == InitIngest /\ [][NextIngest]_vars

NextBackend ==
    \/ IngestBegin
    \/ IngestCreateSensor
    \/ IngestAddReading
    \/ IngestScore
    \/ CreateIssue
    \/ UpdateIssue
    \/ ResolveAlert

SpecBackend == InitBackend /\ [][NextBackend]_vars

----------------------------------------------------------------------------
(* Authentication of the alert and issue handlers.                         *)

\* The request answered last went through get_current_user.
Authenticating == reply.op \in {"create_issue", "update_issue", "resolve_alert"}

\* The header carries a token the identity provider vouches for.
Vouched(h, provider) == h.present /\ h.token = "good" /\ provider = "up"

\* The ids of the table the handler op looks its target up in.
IdsOf(op, d) ==
    IF op = "resolve_alert" THEN {a.id : a \in d.alerts} ELSE {i.id : i \in d.issues}

\* C23: resolve_alert and update_issue answer a request without
\* Authorization header or with a token that is not valid with 401, and a
\* request of a valid user for an unknown id with 404; in both cases no alert
\* and no issue changes.
C23_AuthRequired ==
    [][(reply'.n # reply.n /\ reply'.op \in {"update_issue", "resolve_alert"}) =>
          LET r == reply'
          IN  /\ (~r.header.present \/ r.header.token # "good") =>
                    (r.status = 401 /\ db'.alerts = db.alerts /\ db'.issues = db.issues)
              /\ (Vouched(r.header, r.provider) /\ r.target \notin IdsOf(r.op, db)) =>
                    (r.status = 404 /\ db' = db)]_vars

\* resolve_alert refused a bad token for an alert that exists and is
\* unresolved.
C23_Witness ==
    /\ reply.op = "resolve_alert"
    /\ reply.status = 401
    /\ reply.header.token = "bad"
    /\ \E a \in db.alerts : a.id = reply.target /\ ~a.resolved

\* C24: a new alert is unresolved, and a step changes nothing of an alert
\* that exists but resolved, from false to true: no alert is deleted, none
\* changes sensor id, severity, message or timestamp, and a resolved alert
\* stays resolved, also when it is resolved again.
C24_AlertLifecycle ==
    [][/\ \A a \in db.alerts :
             \E b \in db'.alerts :
                 /\ b.id = a.id
                 /\ b.sensor_id = a.sensor_id
                 /\ b.severity = a.severity
                 /\ b.message = a.message
                 /\ b.timestamp = a.timestamp
                 /\ a.resolved => b.resolved
       /\ \A b \in db'.alerts :
             (b.id \notin {a.id : a \in db.alerts}) => ~b.resolved
       /\ (reply'.n # reply.n /\ reply'.op = "resolve_alert" /\ reply'.status = 200) =>
             \E b \in db'.alerts : b.id = reply'.target /\ b.resolved]_vars

\* Three requests: an ingest raised alerts, and the last request resolved
\* one of them while another is unresolved.
C24_Witness ==
    /\ reply.n = MaxRequests
    /\ reply.op = "resolve_alert"
    /\ reply.status = 200
    /\ \E a, b \in db.alerts : a.id = reply.target /\ a.resolved /\ ~b.resolved

\* C25: get_current_user gives the anonymous result only for a request
\* without Authorization header; a request with the header gets a verified
\* user or a 401, whatever the state of the identity provider, and
\* create_issue stores no issue for it as anonymous.
C25_AnonymousOnlyWithoutHeader ==
    Authenticating =>
        LET h == reply.header
            a == reply.auth
        IN  /\ (a.status = 200 /\ a.user = NoUser) => ~h.present
            /\ h.present => (a.status = 401 \/ (a.user # NoUser /\ Vouched(h, reply.provider)))
            /\ (reply.op = "create_issue" /\ h.present) =>
                  (reply.status = 401 \/ Vouched(h, reply.provider))

----------------------------------------------------------------------------
(* ingest-reading.                                                         *)

\* The request answered last was an ingest-reading.
Ingested == reply.op = "ingest_reading"

\* The alerts stored for the reading r.
AlertsOf(r) ==
    {a \in db.alerts : a.sensor_id = r.sensor_id /\ a.timestamp = r.timestamp}

\* No other reading of r's sensor carries r's timestamp.
OnlyAt(r) ==
    \A q \in db.readings :
        (q.sensor_id = r.sensor_id /\ q.timestamp = r.timestamp) => q = r

\* C27: with a scoring step that flags some subset of its window, at most
\* one alert is stored for any one reading (sensor id, timestamp), however
\* many ingests scored a window that holds it.
C27_OneAlertPerReading ==
    \A r \in db.readings : OnlyAt(r) => Cardinality(AlertsOf(r)) <= 1

\* C28: a request that found its sensor unregistered completes without
\* error whatever another request for the same sensor did meanwhile: the
\* insert of the placeholder sensor does not fail, and its reading is stored.
C28_ConcurrentCreateSafe ==
    Ingested => (reply.error # "IntegrityError" /\ reply.reading_id # 0)

\* C29: ingest-reading is all-or-nothing: after a request that failed,
\* neither the reading nor the sensor it wrote is in the store, and a
\* request that stored a reading is answered ok.
C29_AllOrNothing ==
    Ingested =>
        /\ reply.status # 200 =>
              /\ \A r \in db.readings : r.id # reply.reading_id
              /\ reply.created => reply.sensor_id \notin db.sensors
        /\ reply.reading_id # 0 => reply.status = 200

\* C30: the window scored at ingest holds readings of the posted sensor
\* only, at most WindowLimit of them, none earlier than a reading of the
\* sensor left out, and the reading just ingested is one of them.
C30_WindowHoldsNewReading ==
    (Ingested /\ reply.reading_id # 0) =>
        LET w == reply.window
            mine == {r \in db.readings : r.sensor_id = reply.sensor_id}
            held == {w[i] : i \in 1..Len(w)}
        IN  /\ Len(w) <= WindowLimit
            /\ held \subseteq mine
            /\ \A r \in held, q \in mine \ held : q.timestamp <= r.timestamp
            /\ \E r \in held : r.id = reply.reading_id

====
